---- MODULE Spec2Model ----
(***************************************************************************)
(* Model of numeric-lut (src/src/lib.rs): the lut! procedural macro.       *)
(*                                                                         *)
(* One behaviour is one macro invocation followed by calls of the closure  *)
(* the macro expands to:                                                   *)
(*   Lut::parse   - the parameter loop (one step per parameter), then the  *)
(*                  closing bar, arrow, return type and body block;        *)
(*   lut          - the expansion: table literal, index chain, closure     *)
(*                  parameters, table type;                                *)
(*   the closure  - called with run-time usize arguments, indexing the     *)
(*                  static table (Rust's checked array indexing).          *)
(*                                                                         *)
(* Identifiers are strings; integer literals are naturals up to MaxLit, or *)
(* the abstract kind "LitIntBig" for a literal that does not fit usize.    *)
(* The body is an opaque fragment: the model keeps which body it is and    *)
(* evaluates it only where rustc does, under the const bindings the        *)
(* generated blocks put around it.                                         *)
(***************************************************************************)
EXTENDS Integers, Sequences, FiniteSets, TLC

\* ---- bounds of the model ------------------------------------------------
MaxParams == 2
MaxLit == 1

\* run-time arguments tried on the closure: one past the largest count
MaxArg == MaxLit + 1

\* identifiers a parameter may be declared with; the parameters of one input
\* have pairwise distinct names (a closure binding a name twice is no Rust)
Idents == <<"x", "y", "z", "w">>

\* the bodies tried: the tests' sum, and a positional (injective) encoding
Bodies == {"sum", "code"}

VARIABLES input, body, pc, pos, inputs, err, out, args, result

vars == <<input, body, pc, pos, inputs, err, out, args, result>>

\* ---- the raw input: syn::Pat values between the bars ---------------------
Endpoints ==
    {[kind |-> "LitInt", val |-> v] : v \in 0..MaxLit}
        \cup {[kind |-> "LitIntBig", val |-> 0], [kind |-> "Other", val |-> 0]}

NoEndpoint == [kind |-> "Other", val |-> 0]

RangeLimits == {"HalfOpen", "Closed"}

\* pattern shapes, the identifier left open
PatShapes ==
    {[pat |-> "Ident", sub |-> "Range", lo |-> l, limits |-> lim, hi |-> h] :
        l \in Endpoints, lim \in RangeLimits, h \in Endpoints}
    \cup {[pat |-> "Ident", sub |-> s, lo |-> NoEndpoint, limits |-> "HalfOpen",
           hi |-> NoEndpoint] : s \in {"None", "Other"}}
    \cup {[pat |-> p, sub |-> "None", lo |-> NoEndpoint, limits |-> "HalfOpen",
           hi |-> NoEndpoint] : p \in {"Wild", "Lit", "Tuple"}}

\* the identifier of the k-th of n patterns, in ascending or descending order
NameAt(order, k, n) == IF order = "asc" THEN Idents[k] ELSE Idents[n + 1 - k]

MkPat(shape, id) ==
    [pat |-> shape.pat, ident |-> IF shape.pat = "Ident" THEN id ELSE "_",
     sub |-> shape.sub, lo |-> shape.lo, limits |-> shape.limits, hi |-> shape.hi]

\* ---- Param::from_pat / Param::from_pat_ident -----------------------------
NoParam == [ident |-> "_", lo |-> 0, exclusive_end |-> TRUE, hi |-> 0]

NoError == [msg |-> "", at |-> 0, part |-> "", lo |-> 0, hi |-> 0, ident |-> ""]

\* syn::Error::new(span, message): at and part are the span (which parameter,
\* which piece of it); lo, hi and ident are what the message formats. The
\* messages' backquotes are written as quotes.
Error(k, part, msg, lo, hi, ident) ==
    [msg |-> msg, at |-> k, part |-> part, lo |-> lo, hi |-> hi, ident |-> ident]

Ok(p) == [ok |-> TRUE, param |-> p, err |-> NoError]

Err(e) == [ok |-> FALSE, param |-> NoParam, err |-> e]

\* from_pat_ident without the hi < lo check
from_pat_ident_unchecked(p, k) ==
    IF p.sub = "None"
    THEN Err(Error(k, "ident",
             "this parameter must have a specified range pattern (e.g. '{} @ 1..2')",
             0, 0, p.ident))
    ELSE IF p.sub # "Range"
    THEN Err(Error(k, "subpat", "only range patterns allowed (e.g. '1..2' or '3..=4')",
             0, 0, ""))
    ELSE IF p.lo.kind \notin {"LitInt", "LitIntBig"}
    THEN Err(Error(k, "lo", "must be an integer literal", 0, 0, ""))
    ELSE IF p.lo.kind = "LitIntBig"
    THEN Err(Error(k, "lo", "number too large to fit in target type", 0, 0, ""))
    ELSE IF p.hi.kind \notin {"LitInt", "LitIntBig"}
    THEN Err(Error(k, "hi", "must be an integer literal", 0, 0, ""))
    ELSE IF p.hi.kind = "LitIntBig"
    THEN Err(Error(k, "hi", "number too large to fit in target type", 0, 0, ""))
    ELSE Ok([ident |-> p.ident, lo |-> p.lo.val,
             exclusive_end |-> (p.limits = "HalfOpen"), hi |-> p.hi.val])

\* from_pat_ident matching the upper endpoint before the lower one
from_pat_ident_hi_first(p, k) ==
    IF p.sub = "None"
    THEN Err(Error(k, "ident",
             "this parameter must have a specified range pattern (e.g. '{} @ 1..2')",
             0, 0, p.ident))
    ELSE IF p.sub # "Range"
    THEN Err(Error(k, "subpat", "only range patterns allowed (e.g. '1..2' or '3..=4')",
             0, 0, ""))
    ELSE IF p.hi.kind \notin {"LitInt", "LitIntBig"}
    THEN Err(Error(k, "hi", "must be an integer literal", 0, 0, ""))
    ELSE IF p.hi.kind = "LitIntBig"
    THEN Err(Error(k, "hi", "number too large to fit in target type", 0, 0, ""))
    ELSE IF p.lo.kind \notin {"LitInt", "LitIntBig"}
    THEN Err(Error(k, "lo", "must be an integer literal", 0, 0, ""))
    ELSE IF p.lo.kind = "LitIntBig"
    THEN Err(Error(k, "lo", "number too large to fit in target type", 0, 0, ""))
    ELSE IF p.hi.val < p.lo.val
    THEN Err(Error(k, "subpat", "range lower bound {} must be less than upper bound {}",
             p.lo.val, p.hi.val, ""))
    ELSE Ok([ident |-> p.ident, lo |-> p.lo.val,
             exclusive_end |-> (p.limits = "HalfOpen"), hi |-> p.hi.val])

from_pat_ident(p, k) ==
    IF p.sub = "None"
    THEN Err(Error(k, "ident",
             "this parameter must have a specified range pattern (e.g. '{} @ 1..2')",
             0, 0, p.ident))
    ELSE IF p.sub # "Range"
    THEN Err(Error(k, "subpat", "only range patterns allowed (e.g. '1..2' or '3..=4')",
             0, 0, ""))
    ELSE IF p.lo.kind \notin {"LitInt", "LitIntBig"}
    THEN Err(Error(k, "lo", "must be an integer literal", 0, 0, ""))
    ELSE IF p.lo.kind = "LitIntBig"
    THEN Err(Error(k, "lo", "number too large to fit in target type", 0, 0, ""))
    ELSE IF p.hi.kind \notin {"LitInt", "LitIntBig"}
    THEN Err(Error(k, "hi", "must be an integer literal", 0, 0, ""))
    ELSE IF p.hi.kind = "LitIntBig"
    THEN Err(Error(k, "hi", "number too large to fit in target type", 0, 0, ""))
    ELSE IF p.hi.val < p.lo.val
    THEN Err(Error(k, "subpat", "range lower bound {} must be less than upper bound {}",
             p.lo.val, p.hi.val, ""))
    ELSE Ok([ident |-> p.ident, lo |-> p.lo.val,
             exclusive_end |-> (p.limits = "HalfOpen"), hi |-> p.hi.val])

from_pat(p, k) ==
    IF p.pat = "Ident"
    THEN from_pat_ident(p, k)
    ELSE Err(Error(k, "pat",
             "this parameter must have a range pattern (e.g. 'x @ 1..2' or 'y @ 3..=4')",
             0, 0, ""))

\* ---- the expansion: generate_array and the folds of lut -------------------
\* lo..hi taken to include hi
Range_end_inclusive(lo, hi) == [k \in 1..(hi - lo + 1) |-> lo + k - 1]

\* lo..hi and lo..=hi as the sequence of values the iterator yields
Range(lo, hi) == [k \in 1..(hi - lo) |-> lo + k - 1]

RangeInclusive(lo, hi) == [k \in 1..(hi - lo + 1) |-> lo + k - 1]

\* generate_array binding the element's index instead of the range's value
generate_array_by_index(ident, range, b) ==
    [tag |-> "array",
     items |-> [k \in 1..Len(range) |-> [ident |-> ident, n |-> k - 1, body |-> b]]]

\* the array literal [ { const ident: usize = n; body }, ... ]
generate_array(ident, range, b) ==
    [tag |-> "array",
     items |-> [k \in 1..Len(range) |-> [ident |-> ident, n |-> range[k], body |-> b]]]

\* Expr::Block of the parsed body
BodyExpr(b) == [tag |-> "body", items |-> <<>>, name |-> b]

\* the table fold taking every range as half-open
RECURSIVE table_data_half_open(_, _, _)
table_data_half_open(ps, k, acc) ==
    IF k = 0 THEN acc
    ELSE table_data_half_open(ps, k - 1,
            generate_array(ps[k].ident, Range(ps[k].lo, ps[k].hi), acc))

\* inputs.iter().rev().fold(body, ...): parameters k, k-1, ..., 1 around acc
RECURSIVE table_data(_, _, _)
table_data(ps, k, acc) ==
    IF k = 0 THEN acc
    ELSE table_data(ps, k - 1,
            IF ps[k].exclusive_end
            THEN generate_array(ps[k].ident, Range(ps[k].lo, ps[k].hi), acc)
            ELSE generate_array(ps[k].ident, RangeInclusive(ps[k].lo, ps[k].hi), acc))

\* inputs.iter().fold(__LUT, ...): __LUT[p1][p2]...[pn], the index identifiers
lut_access(ps) == [k \in 1..Len(ps) |-> ps[k].ident]

\* the closure's parameters in reverse declaration order
lut_params_rev(ps) == [k \in 1..Len(ps) |-> ps[Len(ps) + 1 - k].ident]

\* |p1: usize, ..., pn: usize|
lut_params(ps) == [k \in 1..Len(ps) |-> ps[k].ident]

\* the count of a half-open range for every range
count_half_open(p) == p.hi - p.lo

\* param.hi - param.lo, plus one for an inclusive range
count(p) == IF p.exclusive_end THEN p.hi - p.lo ELSE p.hi - p.lo + 1

\* inputs.iter().rev().fold(return_type, ...): [ty; count] around ty
RECURSIVE lut_type(_, _, _)
lut_type(ps, k, ty) ==
    IF k = 0 THEN ty
    ELSE lut_type(ps, k - 1, [tag |-> "array", len |-> count(ps[k]), elem |-> ty])

ReturnType == [tag |-> "ret", len |-> 0]

NoOutput == [present |-> FALSE]

\* { static __LUT: #lut_type = #table_data; |#(#lut_params),*| #lut_access }
Output(ps, b) ==
    [present |-> TRUE,
     ty |-> lut_type(ps, Len(ps), ReturnType),
     data |-> table_data(ps, Len(ps), BodyExpr(b)),
     params |-> lut_params(ps),
     access |-> lut_access(ps)]

\* ---- what rustc and the run time do with the expansion --------------------
\* the value of a body under the const bindings in scope: "sum" adds the bound
\* parameters (x + y of the tests), "code" is one more than their positional
\* encoding, so that different bindings give different values
Radix == MaxLit + 1

RECURSIVE BodySum(_, _, _)
BodySum(b, env, k) ==
    IF k = 0 THEN (IF b = "code" THEN 1 ELSE 0)
    ELSE BodySum(b, env, k - 1)
         + (IF Idents[k] \in DOMAIN env
            THEN env[Idents[k]] * (IF b = "code" THEN Radix ^ (k - 1) ELSE 1)
            ELSE 0)

BodyVal(b, env) == BodySum(b, env, Len(Idents))

\* no binding in scope
NoEnv == [id \in {} |-> 0]

\* constant evaluation of the static's initializer: each block binds its const
\* for the expression inside it, an inner binding shadowing an outer one
RECURSIVE ConstEval(_, _)
ConstEval(e, env) ==
    IF e.tag = "body"
    THEN BodyVal(e.name, env)
    ELSE [k \in 1..Len(e.items) |->
            ConstEval(e.items[k].body, (e.items[k].ident :> e.items[k].n) @@ env)]

\* static __LUT: ty = data is well typed: every array literal has the length
\* its array type declares
RECURSIVE TypeChecks(_, _)
TypeChecks(e, ty) ==
    IF ty.tag = "ret"
    THEN e.tag = "body"
    ELSE /\ e.tag = "array"
         /\ Len(e.items) = ty.len
         /\ \A k \in 1..Len(e.items) : TypeChecks(e.items[k].body, ty.elem)

NoResult == [called |-> FALSE, panicked |-> FALSE, value |-> 0]

Panic == [called |-> TRUE, panicked |-> TRUE, value |-> 0]

Returned(v) == [called |-> TRUE, panicked |-> FALSE, value |-> v]

\* v[i1][i2]...: Rust's array indexing panics on an index >= the length
RECURSIVE Index(_, _, _)
Index(v, idx, k) ==
    IF k > Len(idx) THEN Returned(v)
    ELSE IF idx[k] >= Len(v) THEN Panic
    ELSE Index(v[idx[k] + 1], idx, k + 1)

\* the closure |p1: usize, ...| __LUT[p1]...: the arguments are bound to the
\* parameter names, the index expressions read those names
Closure(o, a) ==
    LET env == [id \in {o.params[k] : k \in 1..Len(o.params)} |->
                   a[CHOOSE k \in 1..Len(o.params) : o.params[k] = id]]
    IN  Index(ConstEval(o.data, NoEnv), [k \in 1..Len(o.access) |-> env[o.access[k]]], 1)

\* ---- the state machine ---------------------------------------------------
Orders == {"asc", "desc"}

Init ==
    /\ \E n \in 0..MaxParams : \E o \in Orders : \E sh \in [1..n -> PatShapes] :
          input = [k \in 1..n |-> MkPat(sh[k], NameAt(o, k, n))]
    /\ body \in Bodies
    /\ pc = "params"
    /\ pos = 1
    /\ inputs = <<>>
    /\ err = NoError
    /\ out = NoOutput
    /\ args = <<>>
    /\ result = NoResult

\* Lut::parse, one turn of the loop that finds a pattern: the pattern is
\* converted and pushed, then the token after it decides
ParseParam ==
    /\ pc = "params"
    /\ pos <= Len(input)
    /\ LET r == from_pat(input[pos], pos) IN
         IF ~r.ok
         THEN /\ pc' = "error"
              /\ err' = r.err
              /\ UNCHANGED <<pos, inputs>>
         ELSE /\ inputs' = Append(inputs, r.param)
              /\ \E next \in (IF pos = Len(input) THEN {"|", ",", "other"}
                                                   ELSE {",", "other"}) :
                   CASE next = "|" ->
                          pc' = "tail" /\ UNCHANGED <<pos, err>>
                     [] next = "," ->
                          pc' = "params" /\ pos' = pos + 1 /\ UNCHANGED err
                     [] OTHER ->
                          /\ pc' = "error"
                          /\ err' = Error(pos, "after", "expected ','", 0, 0, "")
                          /\ UNCHANGED pos
    /\ UNCHANGED <<input, body, out, args, result>>

\* a loop that wants a pattern before it looks for the closing bar
PeekBar_nonempty ==
    /\ pc = "params"
    /\ pos > Len(input)
    /\ IF Len(inputs) = 0
       THEN /\ pc' = "error"
            /\ err' = Error(pos, "pat", "expected pattern", 0, 0, "")
       ELSE pc' = "tail" /\ UNCHANGED err
    /\ UNCHANGED <<input, body, pos, inputs, out, args, result>>

\* Lut::parse, the turn of the loop that finds the closing bar
PeekBar ==
    /\ pc = "params"
    /\ pos > Len(input)
    /\ pc' = "tail"
    /\ UNCHANGED <<input, body, pos, inputs, err, out, args, result>>

\* Lut::parse after the loop: the bar, the arrow, the return type, the block
ParseTail ==
    /\ pc = "tail"
    /\ \E ok \in BOOLEAN :
         IF ok
         THEN pc' = "parsed" /\ UNCHANGED err
         ELSE /\ pc' = "error"
              /\ err' = Error(Len(input) + 1, "tail", "expected token", 0, 0, "")
    /\ UNCHANGED <<input, body, pos, inputs, out, args, result>>

\* lut, after parse_macro_input: the four folds and the quoted output
lut ==
    /\ pc = "parsed"
    /\ out' = Output(inputs, body)
    /\ pc' = "ready"
    /\ UNCHANGED <<input, body, pos, inputs, err, args, result>>

\* a call of the generated closure with run-time arguments; the table is
\* immutable, so calls do not influence each other and a behaviour makes one
Call ==
    /\ pc = "ready"
    /\ \E a \in [1..Len(out.params) -> 0..MaxArg] :
         /\ args' = a
         /\ result' = Closure(out, a)
    /\ pc' = "called"
    /\ UNCHANGED <<input, body, pos, inputs, err, out>>

Next == ParseParam \/ PeekBar \/ ParseTail \/ lut \/ Call

Spec == Init /\ [][Next]_vars

\* ---- the claims ----------------------------------------------------------
\* the element count the specification gives a parameter
SpecCount(p) == IF p.exclusive_end THEN p.hi - p.lo ELSE (p.hi - p.lo) + 1

\* the bindings "each p_k bound to vals[k]"
Bound(ps, vals) ==
    [id \in {ps[k].ident : k \in 1..Len(ps)} |->
        vals[CHOOSE k \in 1..Len(ps) : ps[k].ident = id]]

InIndexRange == \A k \in 1..Len(inputs) : args[k] < SpecCount(inputs[k])

InDeclaredRange ==
    \A k \in 1..Len(inputs) :
        /\ inputs[k].lo <= args[k]
        /\ IF inputs[k].exclusive_end THEN args[k] < inputs[k].hi
                                      ELSE args[k] <= inputs[k].hi

\* C1: called with indices i_k < count(p_k) in every dimension, the closure
\* returns the value of the body with each p_k bound to low_k + i_k.
C1_ExhaustiveByIndex ==
    (pc = "called" /\ InIndexRange) =>
        result = Returned(BodyVal(body,
                    Bound(inputs, [k \in 1..Len(inputs) |-> inputs[k].lo + args[k]])))

C1_Witness ==
    /\ pc = "called"
    /\ body = "code"
    /\ Len(inputs) = 2
    /\ inputs[1].lo > 0
    /\ SpecCount(inputs[2]) > SpecCount(inputs[1])
    /\ InIndexRange
    /\ args[2] > args[1]
    /\ ~result.panicked

\* C2: called with parameter values v_k inside the declared ranges (whatever
\* the lower bounds), the closure returns, without a panic, the value of the
\* body with each p_k bound to v_k.
C2_LookupByValue ==
    (pc = "called" /\ InDeclaredRange) =>
        result = Returned(BodyVal(body, Bound(inputs, args)))

\* C3: called with an index >= count(p_k) in some dimension, the closure
\* panics and returns no table value.
C3_OutOfRangeFault ==
    (pc = "called" /\ \E k \in 1..Len(inputs) : args[k] >= SpecCount(inputs[k])) =>
        result = Panic

C3_Witness ==
    /\ pc = "called"
    /\ Len(inputs) = 2
    /\ args[1] < SpecCount(inputs[1])
    /\ args[2] = SpecCount(inputs[2])
    /\ SpecCount(inputs[2]) > 0
    /\ result.panicked

\* C4: with one parameter, 0..N has exactly the valid indices 0..N-1 and
\* 0..=N exactly 0..N: the call returns for those and panics for the others,
\* so index N returns for the inclusive form and panics for the exclusive.
C4_BoundaryLaw ==
    (pc = "called" /\ Len(inputs) = 1 /\ inputs[1].lo = 0) =>
        LET N == inputs[1].hi
            valid == IF inputs[1].exclusive_end THEN 0..(N - 1) ELSE 0..N
        IN  /\ (~result.panicked) <=> (args[1] \in valid)
            /\ input[1].limits = "HalfOpen" <=> inputs[1].exclusive_end

C4_Witness ==
    /\ pc = "called"
    /\ Len(inputs) = 1
    /\ input[1].limits = "Closed"
    /\ inputs[1].lo = 0
    /\ inputs[1].hi > 0
    /\ args[1] = inputs[1].hi
    /\ ~result.panicked

\* the array lengths of a table type, outermost first
RECURSIVE TypeDims(_)
TypeDims(ty) == IF ty.tag = "ret" THEN <<>> ELSE <<ty.len>> \o TypeDims(ty.elem)

\* C5: declaring (x, y) and declaring (y, x) with the same body give closures
\* with lut(a, b) = lut'(b, a) for in-range (a, b); in both, the table's
\* dimensions and the closure's arguments are in declaration order.
C5_OrderSensitivity ==
    (pc = "called" /\ Len(inputs) = 2 /\ InIndexRange) =>
        LET swapped == Output(<<inputs[2], inputs[1]>>, body)
        IN  /\ Closure(swapped, <<args[2], args[1]>>) = result
            /\ ~result.panicked
            /\ TypeDims(out.ty) = <<SpecCount(inputs[1]), SpecCount(inputs[2])>>
            /\ TypeDims(swapped.ty) = <<SpecCount(inputs[2]), SpecCount(inputs[1])>>
            /\ out.params = <<inputs[1].ident, inputs[2].ident>>
            /\ swapped.params = <<inputs[2].ident, inputs[1].ident>>

C5_Witness ==
    /\ pc = "called"
    /\ body = "code"
    /\ Len(inputs) = 2
    /\ SpecCount(inputs[1]) # SpecCount(inputs[2])
    /\ InIndexRange
    /\ args[1] # args[2]
    /\ ~result.panicked

\* ---- claims about rejection ------------------------------------------------
IsIntLit(e) == e.kind \in {"LitInt", "LitIntBig"}

\* a parameter the grammar and the validator allow: name @ lo..hi or lo..=hi
\* with integer literals that fit usize and lo <= hi
WellFormed(p) ==
    /\ p.pat = "Ident"
    /\ p.sub = "Range"
    /\ p.lo.kind = "LitInt"
    /\ p.hi.kind = "LitInt"
    /\ p.lo.val <= p.hi.val

\* the upper bound literal is smaller than the lower bound literal (a literal
\* that does not fit usize is larger than every one that does)
Inverted(p) ==
    /\ p.pat = "Ident"
    /\ p.sub = "Range"
    /\ IsIntLit(p.lo)
    /\ p.hi.kind = "LitInt"
    /\ (p.lo.kind = "LitIntBig" \/ p.hi.val < p.lo.val)

InvertedFits(p) == Inverted(p) /\ p.lo.kind = "LitInt"

\* the error kinds of the specification, by message
ErrKind(e) ==
    CASE e.msg = "this parameter must have a specified range pattern (e.g. '{} @ 1..2')"
            -> "missing-range"
      [] e.msg = "this parameter must have a range pattern (e.g. 'x @ 1..2' or 'y @ 3..=4')"
            -> "pattern-shape"
      [] e.msg = "only range patterns allowed (e.g. '1..2' or '3..=4')"
            -> "pattern-shape"
      [] e.msg = "must be an integer literal" -> "non-literal-bound"
      [] e.msg = "range lower bound {} must be less than upper bound {}"
            -> "inverted-range"
      [] e.msg = "number too large to fit in target type" -> "number-parse"
      [] e.msg = "" -> "none"
      [] OTHER -> "structural"

\* parsing has failed at a parameter (not at a delimiter between or after them)
FailedAtParam == pc = "error" /\ ErrKind(err) # "structural"

Produced == out.present \/ pc \in {"parsed", "ready", "called"}

HasInverted == \E k \in 1..Len(input) : Inverted(input[k])

\* C6 as stated: an input with an inverted range at any position (here: one
\* whose literals fit usize) fails with the inverted-range error.
C6_InvertedAnywhere ==
    (FailedAtParam /\ \E k \in 1..Len(input) : InvertedFits(input[k])) =>
        ErrKind(err) = "inverted-range"

\* C6 amended: an input with an inverted range at any position produces no
\* table, type or closure; when an inverted range whose literals fit usize is
\* the first malformed parameter, the failure is the inverted-range error at
\* that parameter, stating both bounds.
C6_InvertedRejected ==
    /\ HasInverted => (~Produced /\ pc \in {"params", "error"})
    /\ \A k \in 1..Len(input) :
         (/\ FailedAtParam
          /\ InvertedFits(input[k])
          /\ \A j \in 1..(k - 1) : WellFormed(input[j]))
         => /\ ErrKind(err) = "inverted-range"
            /\ err.at = k
            /\ err.lo = input[k].lo.val
            /\ err.hi = input[k].hi.val

C6_Witness ==
    /\ pc = "error"
    /\ Len(input) = 2
    /\ WellFormed(input[1])
    /\ InvertedFits(input[2])
    /\ ErrKind(err) = "inverted-range"
    /\ err.at = 2

\* C7: every accepted parameter has count >= 1; an exclusive range with
\* high = low is rejected.
C7_NonEmptyDimension ==
    out.present => \A k \in 1..Len(inputs) : SpecCount(inputs[k]) >= 1

\* every array literal at depth k of e has dims[k] elements
RECURSIVE LiteralShape(_, _, _)
LiteralShape(e, dims, k) ==
    IF k > Len(dims) THEN e.tag = "body"
    ELSE /\ e.tag = "array"
         /\ Len(e.items) = dims[k]
         /\ \A i \in 1..Len(e.items) : LiteralShape(e.items[i].body, dims, k + 1)

\* how many times the body occurs in e
RECURSIVE SumBodies(_, _)
BodyCopies(e) == IF e.tag = "body" THEN 1 ELSE SumBodies(e, Len(e.items))
SumBodies(e, i) ==
    IF i = 0 THEN 0 ELSE BodyCopies(e.items[i].body) + SumBodies(e, i - 1)

RECURSIVE Product(_, _)
Product(dims, k) == IF k = 0 THEN 1 ELSE dims[k] * Product(dims, k - 1)

\* C8: the table literal and the table type have rank len(parameters) and
\* count(p_k) elements at depth k, and the body is emitted once per cell.
C8_ShapeAgreement ==
    out.present =>
        LET dims == [k \in 1..Len(inputs) |-> SpecCount(inputs[k])]
        IN  /\ TypeDims(out.ty) = dims
            /\ LiteralShape(out.data, dims, 1)
            /\ TypeChecks(out.data, out.ty)
            /\ BodyCopies(out.data) = Product(dims, Len(dims))

C8_Witness ==
    /\ out.present
    /\ Len(inputs) = 2
    /\ inputs[1].exclusive_end
    /\ ~inputs[2].exclusive_end
    /\ SpecCount(inputs[1]) = 1
    /\ SpecCount(inputs[2]) = 2
    /\ BodyCopies(out.data) = 2

\* the first malformed parameter of the input (0 when there is none)
FirstMalformed ==
    IF \A k \in 1..Len(input) : WellFormed(input[k]) THEN 0
    ELSE CHOOSE k \in 1..Len(input) :
            /\ ~WellFormed(input[k])
            /\ \A j \in 1..(k - 1) : WellFormed(input[j])

\* the part of C9 that does not depend on how a range is malformed
ErrorAtFirstMalformed(m) ==
    /\ m > 0
    /\ err.at = m
    /\ Len(inputs) = m - 1
    /\ ~Produced
    /\ (input[m].pat = "Ident" /\ input[m].sub = "None") =>
           (ErrKind(err) = "missing-range" /\ err.ident = input[m].ident)
    /\ (input[m].pat # "Ident" \/ input[m].sub = "Other") =>
           ErrKind(err) = "pattern-shape"

\* C9 as stated: a range with a lower or an upper endpoint that is no integer
\* literal fails with the non-literal-bound error.
C9_ErrorClassification ==
    FailedAtParam =>
        LET m == FirstMalformed IN
        /\ ErrorAtFirstMalformed(m)
        /\ (input[m].sub = "Range" /\ ~IsIntLit(input[m].lo)) =>
               (ErrKind(err) = "non-literal-bound" /\ err.part = "lo")
        /\ (input[m].sub = "Range" /\ IsIntLit(input[m].lo) /\ ~IsIntLit(input[m].hi)) =>
               (ErrKind(err) = "non-literal-bound" /\ err.part = "hi")

\* C9 amended: the lower endpoint is checked and converted before the upper
\* one is looked at, so the upper endpoint gives the non-literal-bound error
\* when the lower one is an integer literal that fits usize.
C9_ErrorClassificationFits ==
    /\ FirstMalformed > 0 => (~Produced /\ pc \in {"params", "error"})
    /\ FailedAtParam =>
        LET m == FirstMalformed IN
        /\ ErrorAtFirstMalformed(m)
        /\ (input[m].sub = "Range" /\ ~IsIntLit(input[m].lo)) =>
               (ErrKind(err) = "non-literal-bound" /\ err.part = "lo")
        /\ (input[m].sub = "Range" /\ input[m].lo.kind = "LitInt"
                /\ ~IsIntLit(input[m].hi)) =>
               (ErrKind(err) = "non-literal-bound" /\ err.part = "hi")

C9_Witness ==
    /\ pc = "error"
    /\ Len(input) = 2
    /\ WellFormed(input[1])
    /\ input[2].sub = "Range"
    /\ input[2].lo.kind = "LitInt"
    /\ input[2].hi.kind = "Other"
    /\ ErrKind(err) = "non-literal-bound"
    /\ err.at = 2
    /\ Len(inputs) = 1

\* C10: an empty parameter list is accepted (nothing before the closing bar
\* can fail); the table is the bare body, its
\* type the return type, and the closure takes no argument and returns the
\* body's value without indexing.
C10_ZeroParameters ==
    Len(input) = 0 =>
        /\ pc = "error" => err.part = "tail"
        /\ out.present =>
              /\ out.data = BodyExpr(body)
              /\ out.ty = ReturnType
              /\ out.params = <<>>
              /\ out.access = <<>>
        /\ pc = "called" =>
              /\ args = <<>>
              /\ result = Returned(BodyVal(body, NoEnv))

C10_Witness ==
    /\ Len(input) = 0
    /\ pc = "called"
    /\ body = "code"
    /\ result.called
    /\ ~result.panicked

====
